---- MODULE Spec2Model ----
(***************************************************************************)
(* Model of the native memory manager of ixy.java: the huge-page and heap  *)
(* allocator (c_allocate), the shared allocation counter (hugepageid) and  *)
(* the address translator (c_virt2phys), in the two native libraries       *)
(*   src/ixy/src/ixy/c/ixy.c       (FastestMemoryManager,                  *)
(*                                  SmartUnsafeMemoryManager,              *)
(*                                  JniMemoryManager)                      *)
(*   src/memory/src/ixy/c/ixy.c    (JniMemoryManager, here "MemJni").      *)
(* The operating system is modelled by the files of the huge-page          *)
(* filesystem, the descriptor table, the live mappings and heap blocks;    *)
(* every system call that can fail does so nondeterministically.           *)
(***************************************************************************)
EXTENDS Integers, Sequences, FiniteSets, TLC

(***************************************************************************)
(* Bounds of the model.                                                    *)
(***************************************************************************)
\* threads of the caller that enter the library concurrently
NumThreads == 2
\* native calls made in one behaviour (one release may follow the last)
MaxCalls == 2
\* requested sizes are 1..MaxSize (the unit is arbitrary)
MaxSize == 2
\* width of `unsigned int hugepageid`, scaled down from 32 bits
CounterBits == 4
\* width of jlong, uint64_t and of a pagemap entry, scaled down from 64 bits
WordBits == 5
\* the bits of a pagemap entry above the frame number (bits 55..63 of 64)
FlagBits == 1
\* log2 of the base page size (sysconf(_SC_PAGESIZE), a power of two)
PageBits == 2
\* sizeof(void *), scaled down from 8 bytes
AddressSize == 2
\* calls of c_virt2phys made in one behaviour
MaxTranslations == 2
\* bits of one byte of memory, scaled down from 8
ByteBits == 2
\* the accessible memory holds MemCells cells of the widest type (jlong)
MemCells == 1
\* stores and read-modify-writes made in one behaviour
MaxWrites == 1
\* entries of the mount table
MaxMounts == 2
\* lines of the memory information
MaxLines == 2
\* calls of c_hugepage_size made in one behaviour
MaxProbes == 2
\* log2 of the factor 1024 between the units k, M and G, scaled down from 10
KiloBits == 2

Threads == 1 .. NumThreads
Sizes == 1 .. MaxSize
CounterMod == 2 ^ CounterBits

\* the values a probe of the huge-page size can have cached:
\* -1 unsupported, 0 undetermined, otherwise the size of one huge page
HugePageSizes == {0 - 1, 0, 1, 2}

\* the native libraries and the allocation entry points each one exports
Libs == {"ixy", "memory"}
Variants == {"Fastest", "Smart", "Jni", "MemJni"}
LibOf(variant) == IF variant = "MemJni" THEN "memory" ELSE "ixy"

VARIABLES
    lib,          \* the native library loaded into the process
    hugePageSize, \* the cached huge-page size of the page facts
    hugepageid,   \* static unsigned int hugepageid
    files,        \* files of the huge-page filesystem: [path, len, by]
    fds,          \* open descriptors of the process: [fd, path, by]
    maps,         \* live mappings: [addr, len, flen, by]
    heap,         \* live heap blocks: [addr, size, by]
    pc,           \* per thread: "idle", or the place reached in the call in flight
    frame,        \* per thread: the locals of the call in flight
    result,       \* the call that returned last: its arguments and what it returned
    calls,        \* number of native calls started so far
    idLog,        \* the counter values observed, in the order of the fetch-adds
    priorAllocs,  \* huge-page allocations made before the first modelled call
    vaddr,        \* the address (a jlong) the caller asks to translate
    pte,          \* the entry /proc/self/pagemap holds for the page of vaddr
    v2pLog,       \* the translations that returned, in order: [address, ret, stage]
    mem,          \* the bytes of the accessible memory, by address
    held,         \* the regions the caller holds: returned by allocate, not yet
                  \* released: [addr, size, huge]
    os,           \* what the system shows of its mounts and memory:
                  \* [mtabOk, mtab, mtabEof, meminfoOk, meminfo]
    gCachedFields \* static struct CachedFields gCachedFields, by field: the
                  \* value held (0 is NULL) and how often a handle was stored

vars == <<lib, hugePageSize, hugepageid, files, fds, maps, heap, pc, frame,
          result, calls, idLog, priorAllocs, vaddr, pte, v2pLog, mem, held, os,
                   gCachedFields>>

\* a system whose mount table and memory information cannot be opened
NoOs == [mtabOk |-> FALSE, mtab |-> <<>>, mtabEof |-> FALSE,
         meminfoOk |-> FALSE, meminfo |-> <<>>]
\* the fields of gCachedFields: fileDescriptorClass, fileDescriptorCtor,
\* descriptorField
CachedFieldNames == {"fileDescriptorClass", "fileDescriptorCtor", "descriptorField"}

\* static storage: every field NULL
NoCache == [k \in CachedFieldNames |-> [val |-> 0, stores |-> 0]]
NoFrame == [op |-> "none"]
NoResult == [op |-> "none"]

(***************************************************************************)
(* Helpers over the operating-system state.                                *)
(***************************************************************************)
\* the descriptor open() hands out: the lowest one that is not in use
LowestFreeFd(table) ==
    CHOOSE n \in 0 .. Cardinality(table) :
        /\ \A e \in table : e.fd # n
        /\ \A m \in 0 .. n - 1 : \E e \in table : e.fd = m

\* the address malloc() or mmap(NULL, ...) hands out: never 0, never in use
FreshAddr(ms, hs) ==
    CHOOSE a \in 1 .. Cardinality(ms) + Cardinality(hs) + 1 :
        /\ \A m \in ms : m.addr # a
        /\ \A h \in hs : h.addr # a
        /\ \A b \in 1 .. a - 1 : (\E m \in ms : m.addr = b) \/ (\E h \in hs : h.addr = b)

(***************************************************************************)
(* The caller-side entry of the allocator (spec 4.2, steps 1 to 3): the    *)
(* native code receives the size already rounded and has no contiguity     *)
(* argument; its callers are not among the native sources.                 *)
(***************************************************************************)
\* step 2: round size up to the next multiple of the huge-page size
RoundUp(size, H) == ((size + H - 1) \div H) * H

\* AllocPrecheck without the contiguity guard of step 3
AllocPrecheckNoGuard(size, huge, contiguous, H) ==
    IF huge /\ H <= 0 THEN "Unsupported" ELSE "none"

\* AllocPrecheck that lets an undetermined size (0) through step 1
AllocPrecheckZeroPasses(size, huge, contiguous, H) ==
    IF ~huge THEN "none"
    ELSE IF H < 0 THEN "Unsupported"
    ELSE IF contiguous /\ size > H THEN "ContiguityUnavailable"
    ELSE "none"

\* steps 1 and 3: the error the request is refused with, or "none"
AllocPrecheck(size, huge, contiguous, H) ==
    IF ~huge THEN "none"
    ELSE IF H <= 0 THEN "Unsupported"
    ELSE IF contiguous /\ RoundUp(size, H) > H THEN "ContiguityUnavailable"
    ELSE "none"

\* the size handed to the native c_allocate
NativeSize(size, huge, H) == IF huge THEN RoundUp(size, H) ELSE size

(***************************************************************************)
(* The native allocator, c_allocate.                                       *)
(***************************************************************************)
\* the system calls of the huge-page path that can fail; a behaviour picks
\* the first one that does (close and unlink of the file just created are
\* taken to succeed: the code only logs their failure)
SysCalls == {"open", "ftruncate", "mmap", "mlock"}

\* the arguments each entry point has: FastestMemoryManager.c_allocate has
\* neither huge nor lock, memory's JniMemoryManager.c_allocate has no lock
ValidArgs(variant, huge, lock) ==
    /\ variant = "Fastest" => huge /\ ~lock
    /\ variant = "MemJni" => ~lock

\* FetchAdd with the increment lost
FetchAddLost(c) == c

\* FetchAdd that stops at the largest value instead of wrapping
FetchAddSaturating(c) == IF c + 1 = CounterMod THEN c ELSE c + 1

\* __atomic_fetch_add(&hugepageid, 1, __ATOMIC_SEQ_CST): the value stored
FetchAdd(c) == (c + 1) % CounterMod

\* snprintf(path, PATH_MAX, "%s/ixy-%d-%d", prefix, getpid(), id)
PathOf(id) == <<"prefix", "pid", id>>

\* the test after open(): `if(!fd)` or `if(fd == -1)`
OpenFailed(variant, fd) ==
    IF variant \in {"Fastest", "MemJni"} THEN fd = 0 ELSE fd = 0 - 1

\* ftruncate(fd, (off_t) size)
TruncLen(size) == size

\* MmapLen mapping one unit more than the file holds
MmapLenOffByOne(size) == size + 1

\* mmap(NULL, size, ...)
MmapLen(size) == size

\* whether mlock() is called on the new mapping: `lock && mlock(...)`
MlockCalled(variant, lock) ==
    IF variant \in {"Smart", "Jni"} THEN lock ELSE TRUE

\* whether a failed mlock() makes the huge-page path return 0
MlockFatal(variant) == variant \in {"Smart", "Jni"}

\* the huge-page path from open() to the return, for the call frame f and
\* the outcomes of its system calls; yields the new OS state and the result
HugeOutcome(f, openOk, truncOk, mmapOk, mlockOk) ==
    LET path   == PathOf(f.id)
        nsize  == NativeSize(f.size, TRUE, hugePageSize)
        fd     == IF openOk THEN LowestFreeFd(fds) ELSE 0 - 1
        exists == \E x \in files : x.path = path
        files1 == IF openOk /\ ~exists
                  THEN files \cup {[path |-> path, len |-> 0, by |-> f.call]}
                  ELSE files
        fds1   == IF openOk
                  THEN fds \cup {[fd |-> fd, path |-> path, by |-> f.call]}
                  ELSE fds
        sized  == fd # 0 - 1 /\ truncOk
        files2 == {IF x.path = path THEN [x EXCEPT !.len = TruncLen(nsize)] ELSE x
                     : x \in files1}
        flen   == (CHOOSE x \in files2 : x.path = path).len
        addr   == FreshAddr(maps, heap)
        called == MlockCalled(f.variant, f.lock)
        pinBad == called /\ ~mlockOk
        maps1  == maps \cup {[addr |-> addr, len |-> MmapLen(nsize), flen |-> flen,
                              by |-> f.call]}
        fds2   == {e \in fds1 : e.fd # fd}
        files3 == {x \in files2 : x.path # path}
        base   == [ret |-> 0, len |-> 0, flen |-> 0, pinFailed |-> FALSE, fd |-> fd]
    IN  IF OpenFailed(f.variant, fd)
        THEN [base EXCEPT !.ret = 0] @@
             [stage |-> "open", files |-> files1, fds |-> fds1, maps |-> maps]
        ELSE IF ~sized
        THEN base @@ [stage |-> "ftruncate", files |-> files1, fds |-> fds1, maps |-> maps]
        ELSE IF ~mmapOk
        THEN base @@ [stage |-> "mmap", files |-> files2, fds |-> fds1, maps |-> maps]
        ELSE IF pinBad /\ MlockFatal(f.variant)
        THEN [base EXCEPT !.pinFailed = TRUE] @@
             [stage |-> "mlock", files |-> files2, fds |-> fds1, maps |-> maps1]
        ELSE [ret |-> addr, len |-> MmapLen(nsize), flen |-> flen, pinFailed |-> pinBad,
              fd |-> fd, stage |-> "ok", files |-> files3, fds |-> fds2, maps |-> maps1]

\* the heap path (`if (!huge)`): malloc and, where the entry point has a
\* lock argument, mlock
HeapOutcome(variant, size, lock, call, mallocOk, mlockOk) ==
    LET addr  == FreshAddr(maps, heap)
        block == [addr |-> addr, size |-> size, by |-> call]
    IN  IF ~mallocOk
        THEN [ret |-> 0, stage |-> "malloc", pinFailed |-> FALSE, heap |-> heap]
        ELSE IF variant = "MemJni"
        THEN [ret |-> addr, stage |-> "ok", pinFailed |-> FALSE, heap |-> heap \cup {block}]
        ELSE IF lock /\ ~mlockOk
        THEN [ret |-> 0, stage |-> "mlock", pinFailed |-> TRUE, heap |-> heap \cup {block}]
        ELSE [ret |-> addr, stage |-> "ok", pinFailed |-> FALSE,
              heap |-> heap \cup {block}]

(***************************************************************************)
(* Initial states: a process that has just loaded one of the libraries.    *)
(* Descriptors 1 and 2 are open; descriptor 0 is open unless the process   *)
(* was started with standard input closed.                                 *)
(***************************************************************************)
StdFds(stdinOpen) ==
    {[fd |-> n, path |-> <<"std">>, by |-> 0] : n \in (IF stdinOpen THEN {0} ELSE {}) \cup {1, 2}}

InitProcess ==
    /\ lib \in Libs
    /\ files = {}
    /\ \E stdinOpen \in BOOLEAN : fds = StdFds(stdinOpen)
    /\ maps = {}
    /\ heap = {}
    /\ pc = [t \in Threads |-> "idle"]
    /\ frame = [t \in Threads |-> NoFrame]
    /\ result = NoResult
    /\ calls = 0
    /\ idLog = <<>>
    /\ v2pLog = <<>>
    /\ mem = <<>>
    /\ held = {}
    /\ os = NoOs
    /\ gCachedFields = NoCache

InitCommon ==
    /\ InitProcess
    /\ hugePageSize \in HugePageSizes

\* static unsigned int hugepageid = 0
Init ==
    /\ InitCommon
    /\ vaddr = 0
    /\ pte = 0
    /\ priorAllocs = 0
    /\ hugepageid = 0

\* the same process after it has made priorAllocs huge-page allocations
InitLong ==
    /\ InitCommon
    /\ vaddr = 0
    /\ pte = 0
    /\ priorAllocs = CounterMod - 1
    /\ hugepageid = priorAllocs % CounterMod

\* what the caller holds once allocate has returned ret: the region, when
\* ret is an address
Held(ret, size, huge) ==
    IF ret = 0 THEN held
    ELSE held \cup {[addr |-> ret, size |-> size, huge |-> huge]}

(***************************************************************************)
(* allocate: the request is refused before the native code is entered.     *)
(***************************************************************************)
AllocateRejected(t) ==
    /\ pc[t] = "idle"
    /\ calls < MaxCalls
    /\ \E variant \in Variants, size \in Sizes, huge \in BOOLEAN,
          contiguous \in BOOLEAN, lock \in BOOLEAN :
          /\ LibOf(variant) = lib
          /\ ValidArgs(variant, huge, lock)
          /\ contiguous => huge
          /\ AllocPrecheck(size, huge, contiguous, hugePageSize) # "none"
          /\ result' =
                 [op |-> "allocate", variant |-> variant, size |-> size, huge |-> huge,
                  contiguous |-> contiguous, lock |-> lock, call |-> calls + 1,
                  ret |-> 0, err |-> AllocPrecheck(size, huge, contiguous, hugePageSize),
                  stage |-> "precheck", len |-> 0, flen |-> 0, pinFailed |-> FALSE]
    /\ calls' = calls + 1
    /\ UNCHANGED <<lib, hugePageSize, hugepageid, files, fds, maps, heap, pc, frame,
                   idLog, priorAllocs, vaddr, pte, v2pLog, mem, held, os,
                   gCachedFields>>

(***************************************************************************)
(* allocate with huge = false: c_allocate's heap path, in one step.        *)
(***************************************************************************)
AllocateHeap(t) ==
    /\ pc[t] = "idle"
    /\ calls < MaxCalls
    /\ \E variant \in Variants, size \in Sizes, lock \in BOOLEAN,
          fail \in {"none", "malloc", "mlock"} :
          LET out == HeapOutcome(variant, NativeSize(size, FALSE, hugePageSize), lock,
                                 calls + 1, fail # "malloc", fail # "mlock")
          IN  /\ LibOf(variant) = lib
              /\ ValidArgs(variant, FALSE, lock)
              /\ AllocPrecheck(size, FALSE, FALSE, hugePageSize) = "none"
              /\ heap' = out.heap
              /\ result' =
                     [op |-> "allocate", variant |-> variant, size |-> size,
                      huge |-> FALSE, contiguous |-> FALSE, lock |-> lock,
                      call |-> calls + 1, ret |-> out.ret, err |-> "none",
                      stage |-> out.stage, len |-> 0, flen |-> 0,
                      pinFailed |-> out.pinFailed]
              /\ held' = Held(out.ret, size, FALSE)
    /\ calls' = calls + 1
    /\ UNCHANGED <<lib, hugePageSize, hugepageid, files, fds, maps, pc, frame,
                   idLog, priorAllocs, vaddr, pte, v2pLog, mem, os,
                   gCachedFields>>

(***************************************************************************)
(* allocate with huge = true, first step: the request passes the checks,   *)
(* the native code takes its id with the atomic fetch-and-add and builds   *)
(* the path of the backing file.                                           *)
(***************************************************************************)
AllocateHugeBegin(t, requests) ==
    /\ pc[t] = "idle"
    /\ calls < MaxCalls
    /\ \E variant \in Variants, size \in Sizes, contiguous \in BOOLEAN, lock \in BOOLEAN :
          /\ <<size, contiguous>> \in requests
          /\ LibOf(variant) = lib
          /\ ValidArgs(variant, TRUE, lock)
          /\ AllocPrecheck(size, TRUE, contiguous, hugePageSize) = "none"
          /\ frame' = [frame EXCEPT ![t] =
                 [op |-> "allocate", variant |-> variant, size |-> size,
                  contiguous |-> contiguous, lock |-> lock, call |-> calls + 1,
                  id |-> hugepageid]]
    /\ idLog' = Append(idLog, hugepageid)
    /\ hugepageid' = FetchAdd(hugepageid)
    /\ pc' = [pc EXCEPT ![t] = "named"]
    /\ calls' = calls + 1
    /\ UNCHANGED <<lib, hugePageSize, files, fds, maps, heap, result, priorAllocs, vaddr, pte, v2pLog, mem, held, os,
                   gCachedFields>>

(***************************************************************************)
(* allocate with huge = true, second step: open, ftruncate, mmap, mlock,   *)
(* close, unlink and the return.                                           *)
(***************************************************************************)
AllocateHugeFinish(t) ==
    /\ pc[t] = "named"
    /\ \E fail \in SysCalls \cup {"none"} :
          LET f   == frame[t]
              out == HugeOutcome(f, fail # "open", fail # "ftruncate", fail # "mmap",
                                 fail # "mlock")
          IN  /\ files' = out.files
              /\ fds' = out.fds
              /\ maps' = out.maps
              /\ result' =
                     [op |-> "allocate", variant |-> f.variant, size |-> f.size,
                      huge |-> TRUE, contiguous |-> f.contiguous, lock |-> f.lock,
                      call |-> f.call, ret |-> out.ret, err |-> "none",
                      stage |-> out.stage, len |-> out.len, flen |-> out.flen,
                      pinFailed |-> out.pinFailed, fd |-> out.fd]
              /\ held' = Held(out.ret, f.size, TRUE)
    /\ pc' = [pc EXCEPT ![t] = "idle"]
    /\ frame' = [frame EXCEPT ![t] = NoFrame]
    /\ UNCHANGED <<lib, hugePageSize, hugepageid, heap, calls, idLog, priorAllocs, vaddr, pte, v2pLog, mem, os,
                   gCachedFields>>

\* the requests a caller makes: a size and whether it must be contiguous
Requests == Sizes \X BOOLEAN

\* one caller thread making every kind of request
Next ==
    \/ AllocateRejected(1)
    \/ AllocateHeap(1)
    \/ AllocateHugeBegin(1, Requests)
    \/ AllocateHugeFinish(1)

Spec == Init /\ [][Next]_vars

\* every thread allocating huge pages of the smallest size concurrently
NextConc ==
    \E t \in Threads :
        \/ AllocateHugeBegin(t, {<<1, FALSE>>})
        \/ AllocateHugeFinish(t)

SpecConc == Init /\ [][NextConc]_vars

\* the same, in a process whose counter is about to wrap
SpecLong == InitLong /\ [][NextConc]_vars

(***************************************************************************)
(* Release: c_free and c_munmap.  A caller frees a region it holds with    *)
(* the huge flag it allocated it with and with a size of its choice.       *)
(***************************************************************************)
\* the sizes a caller can hand to free and unmap
FreeSizes == 0 .. MaxSize

\* the caller-side entry of free (spec 4.2): the size is rounded as in
\* allocate before the native code is entered
FreeSize(size, huge, H) == NativeSize(size, huge, H)

\* FreeUsesHeap with the test of the flag inverted
FreeUsesHeapInverted(variant, huge) == variant # "Fastest" /\ huge

\* `if (!huge) { free((void *) address); return JNI_TRUE; }`;
\* FastestMemoryManager.c_free has no huge argument and always unmaps
FreeUsesHeap(variant, huge) == variant # "Fastest" /\ ~huge

\* MunmapLen falling one unit short
MunmapLenShort(size) == size - 1

\* the length c_free and c_munmap hand to munmap: `size`
MunmapLen(size) == size

\* munmap(address, len) on the mappings of the process, all of them of
\* files of the huge-page filesystem: EINVAL for a length that is 0 or not
\* a multiple of the huge-page size; otherwise the first len units of the
\* mapping that begins at address are gone (addr then names what is left
\* of that mapping), and a range that holds no mapping is not an error
Munmap(address, len) ==
    IF len <= 0 \/ (hugePageSize > 0 /\ len % hugePageSize # 0)
    THEN [ok |-> FALSE, maps |-> maps]
    ELSE [ok |-> TRUE,
          maps |-> {m \in maps : m.addr # address} \cup
                   {[m EXCEPT !.len = m.len - len] :
                        m \in {x \in maps : x.addr = address /\ x.len > len}}]

\* the backing of the region that begins at address
BackingOf(address) ==
    IF \E h \in heap : h.addr = address THEN "heap"
    ELSE IF \E m \in maps : m.addr = address THEN "huge"
    ELSE "none"

\* c_free(address, size, huge[, lock]) as a whole
FreeOutcome(variant, address, size, huge) ==
    IF FreeUsesHeap(variant, huge)
    THEN [ret |-> "JNI_TRUE", prim |-> "free", osFailed |-> FALSE, maps |-> maps,
          heap |-> {h \in heap : h.addr # address}]
    ELSE LET out == Munmap(address, MunmapLen(size))
         IN  [ret |-> IF out.ok THEN "JNI_TRUE" ELSE "JNI_FALSE", prim |-> "munmap",
              osFailed |-> ~out.ok, maps |-> out.maps, heap |-> heap]

\* the allocation call that created the region at address
CallOf(address) ==
    IF \E h \in heap : h.addr = address
    THEN (CHOOSE h \in heap : h.addr = address).by
    ELSE (CHOOSE m \in maps : m.addr = address).by

Free(t) ==
    /\ pc[t] = "idle"
    /\ calls <= MaxCalls
    /\ \E r \in held, variant \in Variants, size \in FreeSizes :
          LET nsize == FreeSize(size, r.huge, hugePageSize)
              out   == FreeOutcome(variant, r.addr, nsize, r.huge)
          IN  /\ LibOf(variant) = lib
              /\ ValidArgs(variant, r.huge, FALSE)
              /\ maps' = out.maps
              /\ heap' = out.heap
              /\ held' = IF out.ret = "JNI_TRUE" THEN held \ {r} ELSE held
              /\ result' =
                     [op |-> "free", variant |-> variant, address |-> r.addr,
                      size |-> size, nsize |-> nsize, huge |-> r.huge,
                      asize |-> r.size, of |-> CallOf(r.addr),
                      backing |-> BackingOf(r.addr), call |-> calls + 1,
                      ret |-> out.ret, err |-> "none", prim |-> out.prim,
                      osFailed |-> out.osFailed]
    /\ calls' = calls + 1
    /\ UNCHANGED <<lib, hugePageSize, hugepageid, files, fds, pc, frame,
                   idLog, priorAllocs, vaddr, pte, v2pLog, mem, os,
                   gCachedFields>>

\* c_munmap(address, size[, huge, lock]) of the ixy library, on a mapping
\* the caller holds; it returns nothing
Unmap(t) ==
    /\ pc[t] = "idle"
    /\ calls <= MaxCalls
    /\ lib = "ixy"
    /\ \E r \in held, variant \in Variants, size \in FreeSizes :
          LET out == Munmap(r.addr, MunmapLen(size))
          IN  /\ LibOf(variant) = lib
              /\ r.huge
              /\ maps' = out.maps
              /\ held' = held \ {r}
              /\ result' =
                     [op |-> "munmap", variant |-> variant, address |-> r.addr,
                      size |-> size, nsize |-> size, huge |-> r.huge,
                      asize |-> r.size, of |-> CallOf(r.addr),
                      backing |-> BackingOf(r.addr), call |-> calls + 1,
                      ret |-> "void", err |-> "none", prim |-> "munmap",
                      osFailed |-> ~out.ok]
    /\ calls' = calls + 1
    /\ UNCHANGED <<lib, hugePageSize, hugepageid, files, fds, heap, pc, frame,
                   idLog, priorAllocs, vaddr, pte, v2pLog, mem, os,
                   gCachedFields>>

\* one caller thread allocating and releasing
NextFree ==
    \/ AllocateHeap(1)
    \/ AllocateHugeBegin(1, Sizes \X {FALSE})
    \/ AllocateHugeFinish(1)
    \/ Free(1)
    \/ Unmap(1)

\* a process with standard input open on a system that has huge pages
InitFree ==
    /\ Init
    /\ hugePageSize > 0
    /\ \E e \in fds : e.fd = 0

SpecFree == InitFree /\ [][NextFree]_vars

(***************************************************************************)
(* The address translator, c_virt2phys.  Values are two's-complement       *)
(* words of WordBits bits: jlong is signed, uint64_t and uintptr_t are not.*)
(***************************************************************************)
WordMod == 2 ^ WordBits
PfnBits == WordBits - FlagBits
Addresses == (0 - WordMod \div 2) .. (WordMod \div 2 - 1)
Entries == 0 .. WordMod - 1

\* (uint64_t) x
ToUnsigned(x) == x % WordMod

\* (jlong) u, (off_t) u
ToSigned(u) == IF u >= WordMod \div 2 THEN u - WordMod ELSE u

\* a / b of two signed operands with b > 0: C truncates toward zero
CDiv(a, b) == IF a >= 0 THEN a \div b ELSE 0 - ((0 - a) \div b)

\* a & b of two unsigned operands
RECURSIVE BitAnd(_, _)
BitAnd(a, b) ==
    IF a = 0 \/ b = 0 THEN 0
    ELSE (a % 2) * (b % 2) + 2 * BitAnd(a \div 2, b \div 2)

\* sysconf(_SC_PAGESIZE)
PageSize == 2 ^ PageBits

\* PfnMask reaching one bit into the flags of the entry
PfnMaskWide == 2 ^ (PfnBits + 1) - 1

\* 0x7fffffffffffffULL
PfnMask == 2 ^ PfnBits - 1

\* the entry point of c_virt2phys in the loaded library
V2PVariant == IF lib = "memory" THEN "MemJni" ELSE "Jni"

\* `page`: memory divides the jlong by a jlong page size, ixy divides the
\* address converted to uint64_t
V2PPage(variant, address) ==
    IF variant = "MemJni" THEN CDiv(address, PageSize)
    ELSE ToUnsigned(address) \div PageSize

\* the offset handed to lseek: page * sizeof(void *) in unsigned arithmetic,
\* converted to off_t
V2PSeek(variant, address) ==
    ToSigned((ToUnsigned(V2PPage(variant, address)) * AddressSize) % WordMod)

\* `offset`: memory masks with pagesize - 1, ixy takes address % pagesize
V2POffset(variant, address) ==
    IF variant = "MemJni" THEN BitAnd(ToUnsigned(address), ToUnsigned(PageSize - 1))
    ELSE ToUnsigned(address) % PageSize

\* V2PReturn without the multiplication by the page size
V2PReturnFrameOnly(variant, address, phy) ==
    ToSigned((BitAnd(ToUnsigned(phy), PfnMask) + V2POffset(variant, address)) % WordMod)

\* return (jlong) ((phy & 0x7fffffffffffffULL)*pagesize + offset)
V2PReturn(variant, address, phy) ==
    ToSigned((BitAnd(ToUnsigned(phy), PfnMask) * PageSize
                 + V2POffset(variant, address)) % WordMod)

\* the test after open("/proc/self/pagemap"): `if(!fd)` or `if(fd == -1)`
V2POpenFailed(variant, fd) ==
    IF variant = "MemJni" THEN fd = 0 ELSE fd = 0 - 1

\* where the pagemap keeps the entry of the page of vaddr
PteOffset == (ToUnsigned(vaddr) \div PageSize) * AddressSize

\* the whole of c_virt2phys for the first system call that fails (`fail`;
\* "eof" is a read that returns 0 bytes) and the entry `other` the pagemap
\* holds at any offset that is not PteOffset
V2POutcome(variant, address, call, fail, other) ==
    LET fd     == IF fail # "open" THEN LowestFreeFd(fds) ELSE 0 - 1
        fds1   == IF fail # "open"
                  THEN fds \cup {[fd |-> fd, path |-> <<"pagemap">>, by |-> call]}
                  ELSE fds
        seek   == V2PSeek(variant, address)
        seekOk == fd # 0 - 1 /\ seek >= 0 /\ fail # "lseek"
        phy    == IF fail = "eof" THEN 0
                  ELSE IF seek = PteOffset THEN pte ELSE other
        fds2   == {e \in fds1 : e.fd # fd}
    IN  IF V2POpenFailed(variant, fd)
        THEN [ret |-> 0, stage |-> "open", seek |-> 0 - 1, phy |-> 0, fds |-> fds1]
        ELSE IF ~seekOk
        THEN [ret |-> 0, stage |-> "lseek", seek |-> seek, phy |-> 0, fds |-> fds1]
        ELSE IF fail = "read"
        THEN [ret |-> 0, stage |-> "read", seek |-> seek, phy |-> 0, fds |-> fds1]
        ELSE [ret |-> V2PReturn(variant, address, phy),
              stage |-> IF fail = "eof" THEN "eof" ELSE "ok",
              seek |-> seek, phy |-> phy, fds |-> fds2]

Virt2Phys(t) ==
    /\ pc[t] = "idle"
    /\ calls < MaxTranslations
    /\ \E fail \in {"none", "open", "lseek", "read", "eof"},
          other \in (IF V2PSeek(V2PVariant, vaddr) = PteOffset THEN {pte} ELSE Entries) :
          LET out == V2POutcome(V2PVariant, vaddr, calls + 1, fail, other)
          IN  /\ fds' = out.fds
              /\ result' =
                     [op |-> "virt2phys", variant |-> V2PVariant, address |-> vaddr,
                      call |-> calls + 1, ret |-> out.ret, err |-> "none",
                      stage |-> out.stage, seek |-> out.seek, phy |-> out.phy]
    /\ calls' = calls + 1
    /\ v2pLog' = Append(v2pLog, [address |-> vaddr, ret |-> result'.ret,
                                 stage |-> result'.stage])
    /\ UNCHANGED <<lib, hugePageSize, hugepageid, files, maps, heap, pc, frame,
                   idLog, priorAllocs, vaddr, pte, mem, held, os,
                   gCachedFields>>

\* a process about to translate some address whose page has some entry
InitV2P ==
    /\ InitProcess
    /\ hugePageSize = 0 - 1
    /\ priorAllocs = 0
    /\ hugepageid = 0
    /\ vaddr \in Addresses
    /\ pte \in Entries

NextV2P == Virt2Phys(1)

SpecV2P == InitV2P /\ [][NextV2P]_vars

(***************************************************************************)
(* The translation sanity test: a process that holds a fresh huge-page     *)
(* region backed by one physically contiguous huge page translates its     *)
(* base and then the address half a huge page above it.  Here sizes are in *)
(* bytes: a huge page is HugePages base pages.                             *)
(***************************************************************************)
HugeBytes == 2 * PageSize

\* the frame number field of an entry, and the entry with another frame
PfnOf(e) == e % 2 ^ PfnBits
WithPfn(e, pfn) == (e \div 2 ^ PfnBits) * 2 ^ PfnBits + pfn

\* the base addresses mmap can return for one huge page: aligned, not NULL,
\* in the user half of the address space
HugeBases ==
    {a \in Addresses : a > 0 /\ a % HugeBytes = 0 /\ a + HugeBytes <= WordMod \div 2}

\* the frames a huge page can start at: its last byte has a physical
\* address that fits the user half of the word; frame 0 is what the kernel
\* reports to a process that may not see frame numbers
HugeFrames ==
    {f \in 0 .. 2 ^ PfnBits - 1 : (f + HugeBytes \div PageSize) * PageSize <= WordMod \div 2}

InitSanity ==
    /\ lib \in Libs
    /\ hugePageSize = HugeBytes
    /\ hugepageid = 1
    /\ priorAllocs = 1
    /\ files = {}
    /\ \E stdinOpen \in BOOLEAN : fds = StdFds(stdinOpen)
    /\ heap = {}
    /\ pc = [t \in Threads |-> "idle"]
    /\ frame = [t \in Threads |-> NoFrame]
    /\ result = NoResult
    /\ calls = 0
    /\ idLog = <<>>
    /\ v2pLog = <<>>
    /\ mem = <<>>
    /\ held = {}
    /\ os = NoOs
    /\ gCachedFields = NoCache
    /\ vaddr \in HugeBases
    /\ maps = {[addr |-> vaddr, len |-> HugeBytes, flen |-> HugeBytes, by |-> 0]}
    /\ \E e \in Entries : PfnOf(e) \in HugeFrames /\ pte = e

\* the caller moves on to base + huge_page_size/2; the pagemap holds for
\* that page the frame half a huge page above the frame of the base
HalfWay ==
    /\ Len(v2pLog) = 1
    /\ \E m \in maps : m.addr = vaddr
    /\ vaddr' = vaddr + HugeBytes \div 2
    /\ pte' = IF PfnOf(pte) = 0 THEN pte
              ELSE WithPfn(pte, PfnOf(pte) + (HugeBytes \div 2) \div PageSize)
    /\ UNCHANGED <<lib, hugePageSize, hugepageid, files, fds, maps, heap, pc, frame,
                   result, calls, idLog, priorAllocs, v2pLog, mem, held, os,
                   gCachedFields>>

NextSanity == Virt2Phys(1) \/ HalfWay

SpecSanity == InitSanity /\ [][NextSanity]_vars

(***************************************************************************)
(* The raw memory accessor: c_get_w, c_put_w and, in the memory library,   *)
(* c_get_and_put_w, c_get_and_add_w and c_add_and_get_w, each also in a    *)
(* volatile form, for jbyte, jshort, jint and jlong.  Memory is an array   *)
(* of bytes; a value of w bytes is stored least significant byte first.    *)
(***************************************************************************)
ByteMod == 2 ^ ByteBits

\* sizeof(jbyte), sizeof(jshort), sizeof(jint), sizeof(jlong)
TypeBytes == {1, 2, 4, 8}

MemBytes == 8 * MemCells
MemAddrs == 0 .. MemBytes - 1

\* the values of the signed type of w bytes
TypeMod(w) == 2 ^ (w * ByteBits)
TypeMin(w) == 0 - TypeMod(w) \div 2
TypeMax(w) == TypeMod(w) \div 2 - 1

\* the operands the caller passes: the extremes of the type, 1 and -1
ValuesOf(w) == {TypeMin(w), 0 - 1, 1, TypeMax(w)}

\* the conversions between a signed value and its two's-complement pattern
PatternOf(w, v) == v % TypeMod(w)
ValueOf(w, u) == IF u >= TypeMod(w) \div 2 THEN u - TypeMod(w) ELSE u

\* the pattern held by the w bytes at address a
RECURSIVE PatternAt(_, _, _)
PatternAt(m, a, w) ==
    IF w = 0 THEN 0 ELSE m[a] + ByteMod * PatternAt(m, a + 1, w - 1)

\* Load that reads the cell as an unsigned value
LoadUnsigned(m, a, w) == PatternAt(m, a, w)

\* *((jtype *) address)
Load(m, a, w) == ValueOf(w, PatternAt(m, a, w))

\* Store that also overwrites the byte after the cell
StoreSpill(m, a, w, v) ==
    [i \in DOMAIN m |->
        IF i >= a /\ i < a + w THEN (PatternOf(w, v) \div ByteMod ^ (i - a)) % ByteMod
        ELSE IF i = a + w THEN 0
        ELSE m[i]]

\* *((jtype *) address) = value
Store(m, a, w, v) ==
    [i \in DOMAIN m |->
        IF i >= a /\ i < a + w THEN (PatternOf(w, v) \div ByteMod ^ (i - a)) % ByteMod
        ELSE m[i]]

\* Sum that leaves the addend out
SumDropped(w, x, y, undef) == x

\* x + y in the type of w bytes.  jbyte and jshort are promoted to int and
\* the sum is converted back, which wraps; a jint or jlong sum that leaves
\* the range of the type is a signed overflow, whose result the language
\* leaves undefined: `undef` is the value the build produces then
Sum(w, x, y, undef) ==
    IF w \in {1, 2} \/ (x + y >= TypeMin(w) /\ x + y <= TypeMax(w))
    THEN ValueOf(w, PatternOf(w, x + y))
    ELSE undef

\* the values an undefined sum can come out as: the wrapped one or any
\* other of the type (those of ValuesOf stand for them)
Undefined(w, x, y) == {ValueOf(w, PatternOf(w, x + y))} \cup ValuesOf(w)

\* the accesses a caller may make at vaddr: the cell lies in the memory and
\* the address is aligned for the type
Accessible(w) == vaddr % w = 0 /\ vaddr + w <= MemBytes

\* what a call leaves in `result`
Access(op, w, value, ret) ==
    [op |-> op, width |-> w, address |-> vaddr, value |-> value, ret |-> ret,
     before |-> mem, err |-> "none",
     prev |-> IF result.op = "put"
              THEN [op |-> "put", width |-> result.width, address |-> result.address,
                    value |-> result.value]
              ELSE [op |-> "none"]]

\* c_put_w and c_put_w_volatile
Put(t) ==
    /\ calls < MaxWrites
    /\ \E w \in TypeBytes, volatile \in BOOLEAN :
          /\ Accessible(w)
          /\ \E value \in ValuesOf(w) :
                /\ mem' = Store(mem, vaddr, w, value)
                /\ result' = Access("put", w, value, 0)
    /\ calls' = calls + 1
    /\ UNCHANGED <<lib, hugePageSize, hugepageid, files, fds, maps, heap, pc, frame,
                   idLog, priorAllocs, vaddr, pte, v2pLog, held, os,
                   gCachedFields>>

\* c_get_w and c_get_w_volatile
Get(t) ==
    /\ \E w \in TypeBytes, volatile \in BOOLEAN :
          /\ Accessible(w)
          /\ result' = Access("get", w, 0, Load(mem, vaddr, w))
    /\ UNCHANGED <<lib, hugePageSize, hugepageid, files, fds, maps, heap, pc, frame,
                   calls, idLog, priorAllocs, vaddr, pte, v2pLog, mem, held, os,
                   gCachedFields>>

\* c_get_and_put_w and its volatile form:
\* val = *addr; *addr = value; return val;
GetAndPut(t) ==
    /\ calls < MaxWrites
    /\ lib = "memory"
    /\ \E w \in TypeBytes, volatile \in BOOLEAN :
          /\ Accessible(w)
          /\ \E value \in ValuesOf(w) :
                LET val == Load(mem, vaddr, w)
                IN  /\ mem' = Store(mem, vaddr, w, value)
                    /\ result' = Access("get_and_put", w, value, val)
    /\ calls' = calls + 1
    /\ UNCHANGED <<lib, hugePageSize, hugepageid, files, fds, maps, heap, pc, frame,
                   idLog, priorAllocs, vaddr, pte, v2pLog, held, os,
                   gCachedFields>>

\* c_get_and_add_w and its volatile form:
\* val = *addr; *addr += value; return val;
GetAndAdd(t) ==
    /\ calls < MaxWrites
    /\ lib = "memory"
    /\ \E w \in TypeBytes, volatile \in BOOLEAN :
          /\ Accessible(w)
          /\ \E value \in ValuesOf(w) :
                LET val == Load(mem, vaddr, w)
                IN  \E undef \in Undefined(w, Load(mem, vaddr, w), value) :
                       /\ mem' = Store(mem, vaddr, w,
                                       Sum(w, Load(mem, vaddr, w), value, undef))
                       /\ result' = Access("get_and_add", w, value, val)
    /\ calls' = calls + 1
    /\ UNCHANGED <<lib, hugePageSize, hugepageid, files, fds, maps, heap, pc, frame,
                   idLog, priorAllocs, vaddr, pte, v2pLog, held, os,
                   gCachedFields>>

\* c_add_and_get_w and its volatile form:
\* val = *addr + value; *addr = val; return val;
AddAndGet(t) ==
    /\ calls < MaxWrites
    /\ lib = "memory"
    /\ \E w \in TypeBytes, volatile \in BOOLEAN :
          /\ Accessible(w)
          /\ \E value \in ValuesOf(w) :
                \E undef \in Undefined(w, Load(mem, vaddr, w), value) :
                   LET val == Sum(w, Load(mem, vaddr, w), value, undef)
                   IN  /\ mem' = Store(mem, vaddr, w, val)
                       /\ result' = Access("add_and_get", w, value, val)
    /\ calls' = calls + 1
    /\ UNCHANGED <<lib, hugePageSize, hugepageid, files, fds, maps, heap, pc, frame,
                   idLog, priorAllocs, vaddr, pte, v2pLog, held, os,
                   gCachedFields>>

\* the contents the memory can have when the caller starts: every byte the
\* same, or the bytes counting up
MemPatterns ==
    {[i \in MemAddrs |-> (i * k + c) % ByteMod] : k \in {0, 1}, c \in {0, ByteMod - 1}}

InitMem ==
    /\ lib \in Libs
    /\ hugePageSize = 0 - 1
    /\ hugepageid = 0
    /\ priorAllocs = 0
    /\ files = {}
    /\ fds = StdFds(TRUE)
    /\ maps = {}
    /\ heap = {}
    /\ pc = [t \in Threads |-> "idle"]
    /\ frame = [t \in Threads |-> NoFrame]
    /\ result = NoResult
    /\ calls = 0
    /\ idLog = <<>>
    /\ v2pLog = <<>>
    /\ held = {}
    /\ os = NoOs
    /\ gCachedFields = NoCache
    /\ pte = 0
    /\ vaddr \in MemAddrs
    /\ mem \in MemPatterns

NextMem == Put(1) \/ Get(1) \/ GetAndPut(1) \/ GetAndAdd(1) \/ AddAndGet(1)

SpecMem == InitMem /\ [][NextMem]_vars

(***************************************************************************)
(* c_get_and_add_w called by two threads on the same address without any   *)
(* synchronisation.  `val = *addr; *addr += value; return val;` is a load, *)
(* a second load with the addition, and a store; the steps of the threads  *)
(* interleave.                                                             *)
(***************************************************************************)
\* the two threads that make the calls
Racers == {t \in Threads : t <= 2}

\* the thread enters c_get_and_add_w(address = vaddr, value)
RaceEnter(t) ==
    /\ pc[t] = "idle"
    /\ lib = "memory"
    /\ \E w \in TypeBytes : \E value \in ValuesOf(w) :
          /\ Accessible(w)
          /\ frame' = [frame EXCEPT ![t] =
                 [op |-> "get_and_add", width |-> w, value |-> value,
                  before |-> Load(mem, vaddr, w), val |-> 0, tmp |-> 0]]
    /\ pc' = [pc EXCEPT ![t] = "entered"]
    /\ UNCHANGED <<lib, hugePageSize, hugepageid, files, fds, maps, heap, result, calls,
                   idLog, priorAllocs, vaddr, pte, v2pLog, mem, held, os,
                   gCachedFields>>

\* jtype val = *addr;
RaceFetch(t) ==
    /\ pc[t] = "entered"
    /\ frame' = [frame EXCEPT ![t].val = Load(mem, vaddr, frame[t].width)]
    /\ pc' = [pc EXCEPT ![t] = "fetched"]
    /\ UNCHANGED <<lib, hugePageSize, hugepageid, files, fds, maps, heap, result, calls,
                   idLog, priorAllocs, vaddr, pte, v2pLog, mem, held, os,
                   gCachedFields>>

\* *addr += value, first half: the cell is loaded again and the sum formed
RaceSum(t) ==
    /\ pc[t] = "fetched"
    /\ LET w   == frame[t].width
           now == Load(mem, vaddr, w)
       IN  \E undef \in Undefined(w, now, frame[t].value) :
              frame' = [frame EXCEPT ![t].tmp = Sum(w, now, frame[t].value, undef)]
    /\ pc' = [pc EXCEPT ![t] = "summed"]
    /\ UNCHANGED <<lib, hugePageSize, hugepageid, files, fds, maps, heap, result, calls,
                   idLog, priorAllocs, vaddr, pte, v2pLog, mem, held, os,
                   gCachedFields>>

\* *addr += value, second half: the sum is stored; return val;
RaceStore(t) ==
    /\ pc[t] = "summed"
    /\ mem' = Store(mem, vaddr, frame[t].width, frame[t].tmp)
    /\ pc' = [pc EXCEPT ![t] = "returned"]
    /\ UNCHANGED <<lib, hugePageSize, hugepageid, files, fds, maps, heap, frame, result,
                   calls, idLog, priorAllocs, vaddr, pte, v2pLog, held, os,
                   gCachedFields>>

InitRace == InitMem /\ lib = "memory"

NextRace ==
    \E t \in Racers : RaceEnter(t) \/ RaceFetch(t) \/ RaceSum(t) \/ RaceStore(t)

SpecRace == InitRace /\ [][NextRace]_vars

(***************************************************************************)
(* c_copy and c_copy_volatile(src, size, dst): the bulk copy and the copy  *)
(* made one byte at a time through volatile pointers.                      *)
(***************************************************************************)
\* memcpy((void *) dst, (void *) src, size) on ranges that do not overlap
Memcpy(m, src, dst, n) ==
    [i \in DOMAIN m |-> IF i >= dst /\ i < dst + n THEN m[src + (i - dst)] ELSE m[i]]

\* the ranges [src, src + n) and [dst, dst + n) lie in the memory and do
\* not overlap
CopyArgs(src, dst, n) ==
    /\ src + n <= MemBytes
    /\ dst + n <= MemBytes
    /\ src + n <= dst \/ dst + n <= src

\* NextByte that does not advance
NextByteStuck(ptr) == ptr

\* d++ and s++
NextByte(ptr) == ptr + 1

\* volatile const char *s = (void *) src; volatile char *d = (void *) dst;
CopyEnter(t) ==
    /\ pc[t] = "idle"
    /\ lib = "memory"
    /\ calls < MaxWrites
    /\ \E src \in MemAddrs, dst \in MemAddrs, size \in 0 .. MemBytes :
          /\ CopyArgs(src, dst, size)
          /\ frame' = [frame EXCEPT ![t] =
                 [op |-> "copy_volatile", src |-> src, dst |-> dst, length |-> size,
                  s |-> src, d |-> dst, size |-> size, log |-> <<>>, before |-> mem]]
    /\ pc' = [pc EXCEPT ![t] = "copying"]
    /\ calls' = calls + 1
    /\ UNCHANGED <<lib, hugePageSize, hugepageid, files, fds, maps, heap, result,
                   idLog, priorAllocs, vaddr, pte, v2pLog, mem, held, os,
                   gCachedFields>>

\* while (size--) { *(d++) = *(s++); } with size # 0: one byte is copied
CopyByte(t) ==
    /\ pc[t] = "copying"
    /\ frame[t].size # 0
    /\ mem' = [mem EXCEPT ![frame[t].d] = mem[frame[t].s]]
    /\ frame' = [frame EXCEPT ![t].size = @ - 1,
                              ![t].s = NextByte(@),
                              ![t].d = NextByte(@),
                              ![t].log = Append(@, [from |-> frame[t].s, to |-> frame[t].d])]
    /\ UNCHANGED <<lib, hugePageSize, hugepageid, files, fds, maps, heap, pc, result,
                   calls, idLog, priorAllocs, vaddr, pte, v2pLog, held, os,
                   gCachedFields>>

\* while (size--) with size = 0: the loop ends and the function returns
CopyExit(t) ==
    /\ pc[t] = "copying"
    /\ frame[t].size = 0
    /\ frame' = [frame EXCEPT ![t].size = @ - 1]
    /\ pc' = [pc EXCEPT ![t] = "copied"]
    /\ UNCHANGED <<lib, hugePageSize, hugepageid, files, fds, maps, heap, result,
                   calls, idLog, priorAllocs, vaddr, pte, v2pLog, mem, held, os,
                   gCachedFields>>

InitCopy == InitMem /\ lib = "memory" /\ vaddr = 0

NextCopy == CopyEnter(1) \/ CopyByte(1) \/ CopyExit(1)

SpecCopy == InitCopy /\ [][NextCopy]_vars

(***************************************************************************)
(* The probe of the huge-page size, c_hugepage_size: phase 1 looks for the *)
(* huge-page mount in /etc/mtab, phase 2 reads the size from /proc/meminfo.*)
(***************************************************************************)
\* the sequences over S of at most n elements
SeqsUpTo(S, n) == UNION {[1 .. k -> S] : k \in 0 .. n}

\* an entry of the mount table, by what the three strcmp of phase 1 see:
\* mnt_type = "hugetlbfs", mnt_fsname = "hugetlbfs", mnt_dir = "/mnt/huge"
MountEntries ==
    {[type |-> TRUE, fsname |-> TRUE, dir |-> TRUE],
     [type |-> FALSE, fsname |-> TRUE, dir |-> TRUE],
     [type |-> TRUE, fsname |-> FALSE, dir |-> TRUE],
     [type |-> TRUE, fsname |-> TRUE, dir |-> FALSE]}

\* a line of the memory information: "Key: n kB" of another key ("unit"),
\* "Key: n" without a unit ("nounit"), or "Hugepagesize: value unit"
MeminfoLines ==
    {[kind |-> "unit", value |-> 0, unit |-> "k"],
     [kind |-> "nounit", value |-> 0, unit |-> ""]} \cup
    {[kind |-> "huge", value |-> 1, unit |-> u] : u \in {"k", "M", "G", "B"}} \cup
    {[kind |-> "huge", value |-> 3, unit |-> "k"]}

\* what the system can show
OsStates ==
    [mtabOk : BOOLEAN, mtab : SeqsUpTo(MountEntries, MaxMounts), mtabEof : BOOLEAN,
     meminfoOk : BOOLEAN, meminfo : SeqsUpTo(MeminfoLines, MaxLines)]

\* EntryMatches that takes any entry for the huge-page mount
EntryMatchesAny(e) == TRUE

\* strcmp(mnt->mnt_type, "hugetlbfs") == 0 && strcmp(mnt->mnt_fsname,
\* "hugetlbfs") == 0 && strcmp(mnt->mnt_dir, "/mnt/huge") == 0
EntryMatches(e) == e.type /\ e.fsname /\ e.dir

\* the loop of phase 1 from entry i on: "found" at a matching entry, "null"
\* when getmntent returns NULL (no entry left, or a read error), "absent"
\* when the end-of-file indicator ends the loop after the last entry (a
\* table whose last line was read up to the end of the file)
RECURSIVE ScanMtab(_, _, _)
ScanMtab(mtab, eof, i) ==
    IF i > Len(mtab) THEN "null"
    ELSE IF EntryMatches(mtab[i]) THEN "found"
    ELSE IF i = Len(mtab) /\ eof THEN "absent"
    ELSE ScanMtab(mtab, eof, i + 1)

\* 1024
Kilo == 2 ^ KiloBits

\* switch (multiplier[0]) { case 'G': ... case 'M': ... case 'k': ... }
Multiplier(unit) ==
    IF unit = "G" THEN Kilo * Kilo * Kilo
    ELSE IF unit = "M" THEN Kilo * Kilo
    ELSE IF unit = "k" THEN Kilo
    ELSE 1

\* the loop of phase 2 from line i on.  fscanf(fp, "%s %d %3s\n", ...)
\* reads a key, a number and a unit; on a line without a unit the "%3s"
\* takes the first characters of the next line, whose rest is then skipped
\* with the line.  Yields whether the size was found, and the size.
\* ("%d" stores an int through the jlong pointer and "%3s" can write four
\* bytes into multiplier[3]; the value taken here is the one a little-endian
\* build yields, the number read with the upper half left at its initial 0.)
RECURSIVE ScanMeminfo(_, _)
ScanMeminfo(lines, i) ==
    IF i > Len(lines) THEN [found |-> FALSE, size |-> 0]
    ELSE IF lines[i].kind = "huge"
    THEN [found |-> TRUE, size |-> lines[i].value * Multiplier(lines[i].unit)]
    ELSE IF lines[i].kind = "nounit" THEN ScanMeminfo(lines, i + 2)
    ELSE ScanMeminfo(lines, i + 1)

\* c_hugepage_size as a whole: the value returned, the step that decided
\* it and the descriptors of the process afterwards (fopen takes the lowest
\* free descriptor; the stream of the mount table is not closed on the
\* return that follows a NULL of getmntent)
ProbeOutcome(call) ==
    LET fd     == LowestFreeFd(fds)
        leaked == fds \cup {[fd |-> fd, path |-> <<"mtab">>, by |-> call]}
        scan   == ScanMtab(os.mtab, os.mtabEof, 1)
        info   == ScanMeminfo(os.meminfo, 1)
    IN  IF ~os.mtabOk THEN [ret |-> 0 - 1, stage |-> "mtab-open", fds |-> fds]
        ELSE IF scan = "null" THEN [ret |-> 0 - 1, stage |-> "mtab-null", fds |-> leaked]
        ELSE IF scan = "absent" THEN [ret |-> 0 - 1, stage |-> "mtab-absent", fds |-> fds]
        ELSE IF ~os.meminfoOk THEN [ret |-> 0, stage |-> "meminfo-open", fds |-> fds]
        ELSE IF ~info.found THEN [ret |-> 0, stage |-> "meminfo-absent", fds |-> fds]
        ELSE [ret |-> info.size, stage |-> "ok", fds |-> fds]

HugepageSize(t) ==
    /\ pc[t] = "idle"
    /\ calls < MaxProbes
    /\ LET out == ProbeOutcome(calls + 1)
       IN  /\ fds' = out.fds
           /\ result' = [op |-> "hugepage_size", call |-> calls + 1, ret |-> out.ret,
                         err |-> "none", stage |-> out.stage]
    /\ calls' = calls + 1
    /\ UNCHANGED <<lib, hugePageSize, hugepageid, files, maps, heap, pc, frame,
                   idLog, priorAllocs, vaddr, pte, v2pLog, mem, held, os,
                   gCachedFields>>

\* a process that has not probed yet, on any system
InitProbe ==
    /\ lib \in Libs
    /\ hugePageSize = 0
    /\ hugepageid = 0
    /\ priorAllocs = 0
    /\ files = {}
    /\ fds = StdFds(TRUE)
    /\ maps = {}
    /\ heap = {}
    /\ pc = [t \in Threads |-> "idle"]
    /\ frame = [t \in Threads |-> NoFrame]
    /\ result = NoResult
    /\ calls = 0
    /\ idLog = <<>>
    /\ v2pLog = <<>>
    /\ mem = <<>>
    /\ held = {}
    /\ vaddr = 0
    /\ pte = 0
    /\ os \in OsStates
    /\ gCachedFields = NoCache

NextProbe == HugepageSize(1)

SpecProbe == InitProbe /\ [][NextProbe]_vars

(***************************************************************************)
(* c_mmap(jfd, size, huge, lock) of the ixy library: cacheFields resolves  *)
(* the handles of java.io.FileDescriptor, the descriptor is read from the  *)
(* caller's object and the file is mapped.  cacheFields tests and sets     *)
(* gCachedFields without any lock, so its tests and its stores are steps   *)
(* of their own.                                                           *)
(***************************************************************************)
\* the file the caller opened and hands to c_mmap inside a FileDescriptor
CallerPath == <<"caller">>

\* the order in which cacheFields goes through the fields
FieldAfter(k) ==
    IF k = "fileDescriptorClass" THEN "fileDescriptorCtor"
    ELSE IF k = "fileDescriptorCtor" THEN "descriptorField"
    ELSE "done"

\* what a resolution yields: NewGlobalRef makes a new reference each time
\* it is called (numbered by the stores made so far), GetMethodID and
\* GetFieldID yield the same id every time; NULL (0) when it fails
Resolved(k, ok) ==
    IF ~ok THEN 0
    ELSE IF k = "fileDescriptorClass" THEN gCachedFields[k].stores + 1
    ELSE 1

\* int flags = MAP_SHARED; if (huge) flags |= MAP_HUGETLB;
\* if (lock) flags |= MAP_NORESERVE [| MAP_LOCKED];
MapFlags(variant, huge, lock) ==
    {"MAP_SHARED"} \cup
    (IF huge THEN {"MAP_HUGETLB"} ELSE {}) \cup
    (IF ~lock THEN {}
     ELSE IF variant = "Fastest" THEN {"MAP_NORESERVE"}
     ELSE {"MAP_NORESERVE", "MAP_LOCKED"})

\* PROT_READ | PROT_WRITE
MapProt == {"PROT_READ", "PROT_WRITE"}

\* whether mlock() is called on the new mapping: `int code = mlock(map,
\* size)` in FastestMemoryManager, `lock && mlock(map, size) != 0` elsewhere
MapMlockCalled(variant, lock) == IF variant = "Fastest" THEN TRUE ELSE lock

\* FdsAfterMap with the caller's descriptor closed
FdsAfterMapClosed(table, fd) == {e \in table : e.fd # fd}

\* the descriptors of the process when c_mmap returns, for the table it
\* found or left behind its own calls: the function never calls close
FdsAfterMap(table, fd) == table

\* the calls a caller makes: <<variant, size, huge, lock>>
MapArgs == {v \in Variants : LibOf(v) = "ixy"} \X {1} \X BOOLEAN \X BOOLEAN

\* c_mmap is entered: the first test of cacheFields comes next
MapEnter(t, args) ==
    /\ pc[t] = "idle"
    /\ lib = "ixy"
    /\ calls < MaxCalls
    /\ \E a \in args, e \in fds :
          /\ e.path = CallerPath
          /\ frame' = [frame EXCEPT ![t] =
                 [op |-> "mmap", variant |-> a[1], size |-> a[2], huge |-> a[3],
                  lock |-> a[4], fd |-> e.fd, call |-> calls + 1,
                  field |-> "fileDescriptorClass"]]
    /\ pc' = [pc EXCEPT ![t] = "check"]
    /\ calls' = calls + 1
    /\ UNCHANGED <<lib, hugePageSize, hugepageid, files, fds, maps, heap, result,
                   idLog, priorAllocs, vaddr, pte, v2pLog, mem, held, os, gCachedFields>>

\* if (gCachedFields.<field> == NULL)
CacheCheck(t) ==
    /\ pc[t] = "check"
    /\ LET k == frame[t].field
       IN  IF gCachedFields[k].val = 0
           THEN /\ pc' = [pc EXCEPT ![t] = "resolve"]
                /\ frame' = frame
           ELSE /\ pc' = [pc EXCEPT ![t] =
                              IF FieldAfter(k) = "done" THEN "mapping" ELSE "check"]
                /\ frame' = [frame EXCEPT ![t].field = FieldAfter(k)]
    /\ UNCHANGED <<lib, hugePageSize, hugepageid, files, fds, maps, heap, result, calls,
                   idLog, priorAllocs, vaddr, pte, v2pLog, mem, held, os>>
    /\ UNCHANGED gCachedFields

\* gCachedFields.<field> = <resolution>; if it is NULL cacheFields returns
\* JNI_FALSE and c_mmap returns 0
CacheResolve(t) ==
    /\ pc[t] = "resolve"
    /\ \E ok \in BOOLEAN :
          LET f == frame[t]
              k == f.field
          IN  /\ gCachedFields' = [gCachedFields EXCEPT ![k] =
                     [val |-> Resolved(k, ok),
                      stores |-> IF ok THEN @.stores + 1 ELSE @.stores]]
              /\ IF ok
                 THEN /\ pc' = [pc EXCEPT ![t] =
                                    IF FieldAfter(k) = "done" THEN "mapping" ELSE "check"]
                      /\ frame' = [frame EXCEPT ![t].field = FieldAfter(k)]
                      /\ result' = result
                 ELSE /\ pc' = [pc EXCEPT ![t] = "idle"]
                      /\ frame' = [frame EXCEPT ![t] = NoFrame]
                      /\ result' =
                             [op |-> "mmap", variant |-> f.variant, size |-> f.size,
                              huge |-> f.huge, lock |-> f.lock, fd |-> f.fd,
                              call |-> f.call, ret |-> 0, err |-> "none",
                              stage |-> "cacheFields", flags |-> {}, prot |-> {},
                              mlockCalled |-> FALSE]
    /\ UNCHANGED <<lib, hugePageSize, hugepageid, files, fds, maps, heap, calls,
                   idLog, priorAllocs, vaddr, pte, v2pLog, mem, held, os>>

\* the rest of c_mmap for the outcomes of mmap and mlock.  When mmap fails
\* the Smart and Jni entry points print `size % c_hugepage_size()`, which
\* runs the probe (and leaves what the probe leaves) and divides by what
\* it returns: a division by 0 has no defined result, the process is
\* stopped by the trap (`trap`) or goes on
MapOutcome(f, mmapOk, trap) ==
    LET addr   == FreshAddr(maps, heap)
        probed == f.variant # "Fastest"
        probe  == ProbeOutcome(f.call)
        fds1   == IF probed THEN probe.fds ELSE fds
    IN  IF mmapOk
        THEN [ret |-> addr, stage |-> "ok", fds |-> FdsAfterMap(fds, f.fd),
              maps |-> maps \cup {[addr |-> addr, len |-> MmapLen(f.size),
                                   flen |-> f.size, by |-> f.call]},
              mlockCalled |-> MapMlockCalled(f.variant, f.lock)]
        ELSE IF probed /\ probe.ret = 0 /\ trap
        THEN [ret |-> 0, stage |-> "killed", fds |-> fds1, maps |-> maps,
              mlockCalled |-> FALSE]
        ELSE [ret |-> 0, stage |-> "mmap", fds |-> FdsAfterMap(fds1, f.fd),
              maps |-> maps, mlockCalled |-> FALSE]

MapFinish(t) ==
    /\ pc[t] = "mapping"
    /\ \E mmapOk \in BOOLEAN, trap \in BOOLEAN :
          LET f   == frame[t]
              out == MapOutcome(f, mmapOk, trap)
          IN  /\ fds' = out.fds
              /\ maps' = out.maps
              /\ held' = Held(out.ret, f.size, TRUE)
              /\ result' =
                     [op |-> IF out.stage = "killed" THEN "killed" ELSE "mmap",
                      variant |-> f.variant, size |-> f.size,
                      huge |-> f.huge, lock |-> f.lock, fd |-> f.fd,
                      call |-> f.call, ret |-> out.ret, err |-> "none",
                      stage |-> out.stage,
                      flags |-> MapFlags(f.variant, f.huge, f.lock), prot |-> MapProt,
                      mlockCalled |-> out.mlockCalled]
              /\ pc' = IF out.stage = "killed"
                       THEN [u \in Threads |-> "killed"]
                       ELSE [pc EXCEPT ![t] = "idle"]
    /\ frame' = [frame EXCEPT ![t] = NoFrame]
    /\ UNCHANGED <<lib, hugePageSize, hugepageid, files, heap, calls, idLog,
                   priorAllocs, vaddr, pte, v2pLog, mem, os, gCachedFields>>

\* the systems a mapping is made on: the mount table cannot be read, it is
\* empty, or it lists the mount while the memory information cannot be read
MapOsStates ==
    {NoOs,
     [NoOs EXCEPT !.mtabOk = TRUE],
     [NoOs EXCEPT !.mtabOk = TRUE,
                  !.mtab = <<[type |-> TRUE, fsname |-> TRUE, dir |-> TRUE]>>]}

\* a process of the ixy library that holds an open file to map
InitMap ==
    /\ lib = "ixy"
    /\ hugePageSize = 1
    /\ hugepageid = 0
    /\ priorAllocs = 0
    /\ files = {}
    /\ fds = StdFds(TRUE) \cup
             {[fd |-> LowestFreeFd(StdFds(TRUE)), path |-> CallerPath, by |-> 0]}
    /\ maps = {}
    /\ heap = {}
    /\ pc = [t \in Threads |-> "idle"]
    /\ frame = [t \in Threads |-> NoFrame]
    /\ result = NoResult
    /\ calls = 0
    /\ idLog = <<>>
    /\ v2pLog = <<>>
    /\ mem = <<>>
    /\ held = {}
    /\ vaddr = 0
    /\ pte = 0
    /\ os \in MapOsStates
    /\ gCachedFields = NoCache

\* one caller thread mapping and unmapping
NextMap ==
    \/ MapEnter(1, MapArgs)
    \/ CacheCheck(1)
    \/ CacheResolve(1)
    \/ MapFinish(1)
    \/ Unmap(1)

SpecMap == InitMap /\ [][NextMap]_vars

\* every thread mapping the same way, concurrently
CacheArgs == {<<"Jni", 1, FALSE, FALSE>>}

InitCache == InitMap /\ os = NoOs

NextCache ==
    \E t \in Threads :
        \/ MapEnter(t, CacheArgs)
        \/ CacheCheck(t)
        \/ CacheResolve(t)
        \/ MapFinish(t)

SpecCache == InitCache /\ [][NextCache]_vars

(***************************************************************************)
(* Properties of the allocator.                                            *)
(***************************************************************************)
\* the last call that returned was a huge-page allocation that ...
HugeReturned == result.op = "allocate" /\ result.huge
\* ... entered the native code
HugeRan == HugeReturned /\ result.stage # "precheck"
\* what the call with number c left behind
FilesOf(c) == {x \in files : x.by = c}
FdsOf(c) == {e \in fds : e.by = c}
MapsOf(c) == {m \in maps : m.by = c}
HeapOf(c) == {h \in heap : h.by = c}

\* C1: a successful huge-page allocation of size > 0 with huge-page size
\* H > 0 sizes the backing file to, and maps, the smallest multiple of H
\* that is >= size.
C1_RoundedLength ==
    (HugeReturned /\ result.ret # 0) =>
        /\ hugePageSize > 0
        /\ result.len % hugePageSize = 0
        /\ result.len >= result.size
        /\ result.len - hugePageSize < result.size
        /\ result.flen = result.len
        /\ \E m \in MapsOf(result.call) :
              m.addr = result.ret /\ m.len = result.len /\ m.flen = result.len

\* a huge-page allocation whose size had to be rounded up has succeeded
C1_Witness ==
    /\ HugeReturned
    /\ result.ret # 0
    /\ result.size % hugePageSize # 0
    /\ result.len > result.size

\* C2: with huge pages supported, a huge-page allocation requested as
\* contiguous whose size exceeds one huge page fails with
\* ContiguityUnavailable, returns no address and never enters the native
\* allocator.
C2_ContiguityGuard ==
    /\ (HugeReturned /\ result.contiguous /\ hugePageSize > 0
            /\ result.size > hugePageSize) =>
           /\ result.err = "ContiguityUnavailable"
           /\ result.ret = 0
           /\ MapsOf(result.call) = {}
    /\ \A t \in Threads :
           pc[t] = "named" => ~(frame[t].contiguous /\ frame[t].size > hugePageSize)

\* a contiguous request larger than one huge page has been refused
C2_Witness ==
    /\ HugeReturned
    /\ result.contiguous
    /\ hugePageSize > 0
    /\ result.size > hugePageSize
    /\ result.err = "ContiguityUnavailable"

\* C3: concurrent huge-page allocations observe distinct counter values,
\* each handed out exactly once and in strictly increasing order of the
\* fetch-adds, so no two allocations build the same backing-file name.
C3_UniqueIds ==
    /\ \A i, j \in DOMAIN idLog : i < j => idLog[i] < idLog[j]
    /\ \A t \in Threads :
           pc[t] = "named" =>
               Cardinality({i \in DOMAIN idLog : idLog[i] = frame[t].id}) = 1
    /\ \A t, u \in Threads :
           (t # u /\ pc[t] = "named" /\ pc[u] = "named") =>
               PathOf(frame[t].id) # PathOf(frame[u].id)

\* two threads are between their fetch-add and their open() at once
C3_Witness ==
    \E t, u \in Threads : t # u /\ pc[t] = "named" /\ pc[u] = "named"

\* C4 as stated: the counter is never reset and no allocation observes a
\* value an earlier allocation observed (the allocations before the first
\* modelled call observed 0 .. priorAllocs - 1).
C4_NeverReused ==
    /\ hugepageid >= priorAllocs % CounterMod
    /\ \A j \in DOMAIN idLog :
           /\ idLog[j] >= priorAllocs
           /\ \A i \in 1 .. j - 1 : idLog[i] # idLog[j]

\* C4 as amended: the k-th allocation of the process observes k modulo
\* 2^w, the counter is only ever incremented modulo 2^w, and allocations
\* fewer than 2^w apart observe distinct values.
C4_DistinctModulo ==
    /\ hugepageid = (priorAllocs + Len(idLog)) % CounterMod
    /\ \A j \in DOMAIN idLog : idLog[j] = (priorAllocs + j - 1) % CounterMod
    /\ \A i, j \in DOMAIN idLog :
           (i < j /\ j - i < CounterMod) => idLog[i] # idLog[j]

\* the counter has wrapped: an allocation observed 0 again
C4_Witness ==
    /\ priorAllocs > 0
    /\ \E j \in DOMAIN idLog : idLog[j] = 0

\* C5 as stated: when a huge-page allocation returns, on any path, the
\* backing file it created is unlinked and its descriptor is closed.
C5_FileGone ==
    HugeRan => FilesOf(result.call) = {} /\ FdsOf(result.call) = {}

\* C7 as stated: a failed mlock after a successful mmap is not fatal: the
\* call closes and unlinks the backing file and returns the mapped address.
C7_PinNotFatal ==
    (HugeRan /\ result.pinFailed) =>
        /\ result.ret # 0
        /\ \E m \in MapsOf(result.call) : m.addr = result.ret
        /\ FilesOf(result.call) = {}
        /\ FdsOf(result.call) = {}

\* C8 as stated: a heap allocation with pin = true whose malloc succeeds
\* and whose mlock fails reports PinFailed and still returns the block.
C8_PinFailedKeepsBlock ==
    (result.op = "allocate" /\ ~result.huge /\ result.lock /\ result.pinFailed) =>
        /\ result.err = "PinFailed"
        /\ result.ret # 0
        /\ \E h \in HeapOf(result.call) : h.addr = result.ret

\* C9: with a probed huge-page size <= 0 a huge-page allocation fails with
\* Unsupported before any backing file is created, sized or mapped.
C9_UnsupportedFailsFast ==
    hugePageSize <= 0 =>
        /\ HugeReturned =>
               /\ result.err = "Unsupported"
               /\ result.ret = 0
               /\ result.stage = "precheck"
        /\ files = {}
        /\ maps = {}
        /\ \A e \in fds : e.by = 0
        /\ idLog = <<>>
        /\ \A t \in Threads : pc[t] = "idle"

\* a huge-page allocation was refused because the size is undetermined (0)
C9_Witness ==
    /\ hugePageSize = 0
    /\ HugeReturned
    /\ result.err = "Unsupported"

(***************************************************************************)
(* Properties of the translator.                                           *)
(***************************************************************************)
\* the last call that returned was a translation that read the entry
Translated == result.op = "virt2phys" /\ result.stage = "ok"

\* C10: for every address and every page-table entry, a translation reads
\* the entry at byte offset (address / base_page_size) * native_address_width
\* and returns (entry mod 2^55) * base_page_size + (address mod
\* base_page_size), the address and the result being words of the machine
\* (the sum is taken in the width of the word); the bits of the entry above
\* the frame number do not influence the result.
C10_Formula ==
    Translated =>
        /\ result.seek = (ToUnsigned(vaddr) \div PageSize) * AddressSize
        /\ result.phy = pte
        /\ ToUnsigned(result.ret) =
               ((pte % 2 ^ PfnBits) * PageSize
                    + (ToUnsigned(vaddr) % PageSize)) % WordMod
        /\ \A e \in Entries :
               e % 2 ^ PfnBits = pte % 2 ^ PfnBits =>
                   V2PReturn(result.variant, vaddr, e) = result.ret

(***************************************************************************)
(* Properties of the error reporting.                                      *)
(***************************************************************************)
\* C6: every failure of allocate and virtual_to_physical reaches the caller
\* as an error distinct from every value a successful call returns: a call
\* that failed at some step carries an error, and is never signalled by the
\* address 0 alone.
C6_FailuresDistinguishable ==
    (result.op \in {"allocate", "virt2phys"} /\ result.stage # "ok") =>
        result.err # "none"

\* C11: a translation whose open of the page-table interface fails reports
\* TranslationUnavailable; one whose seek or read fails, or that reads no
\* usable entry (nothing read, or an entry without the present bit), reports
\* TranslationFailed; neither returns a computed physical address.
C11_TranslationErrors ==
    result.op = "virt2phys" =>
        /\ result.stage = "open" =>
               result.err = "TranslationUnavailable" /\ result.ret = 0
        /\ (\/ result.stage \in {"lseek", "read", "eof"}
            \/ result.stage = "ok" /\ result.phy < 2 ^ (WordBits - 1)) =>
               result.err = "TranslationFailed" /\ result.ret = 0

C13_FreeSymmetry ==
    (result.op = "free" /\ result.size = result.asize) =>
        /\ result.ret = "JNI_TRUE"
        /\ result.nsize = NativeSize(result.asize, result.huge, hugePageSize)
        /\ MapsOf(result.of) = {}
        /\ HeapOf(result.of) = {}
        /\ \A r \in held : r.addr # result.address

\* a huge-page region whose size had been rounded up was freed with the
\* size it was allocated with
C13_Witness ==
    /\ result.op = "free"
    /\ result.huge
    /\ result.size = result.asize
    /\ result.nsize > result.size
    /\ result.ret = "JNI_TRUE"

\* C14: free of a huge-page region and unmap of a mapped region return a
\* failure exactly when the munmap call of the operating system fails, and
\* a success otherwise.
C14_UnmapFailureSurfaced ==
    (result.op \in {"free", "munmap"} /\ result.prim = "munmap") =>
        /\ result.osFailed <=> result.ret = "JNI_FALSE"
        /\ ~result.osFailed <=> result.ret = "JNI_TRUE"

\* C15: when the caller frees with the huge flag it allocated with, a heap
\* block is released with free() only and a mapping with munmap() only.
C15_NoCrossFree ==
    result.op = "free" =>
        /\ result.backing = "heap" => result.prim = "free"
        /\ result.backing = "huge" => result.prim = "munmap"
        /\ result.backing # "none"

\* the caller held a heap block and a mapping and has freed one of them
C15_Witness ==
    /\ result.op = "free"
    /\ result.ret = "JNI_TRUE"
    /\ \E r \in held : r.huge # result.huge

(***************************************************************************)
(* Properties of the raw memory accessor.                                  *)
(***************************************************************************)
\* the bytes outside the cell the last call worked on are as before it
FrameKept ==
    \A i \in MemAddrs :
        (i < result.address \/ i >= result.address + result.width) =>
            mem[i] = result.before[i]

\* C16: for every width, aligned mapped address and value of the width's
\* range, a load that follows a store to the same cell with no write in
\* between returns exactly the value stored, volatile or not.
C16_StoreLoadRoundTrip ==
    /\ result.op = "put" => Load(mem, result.address, result.width) = result.value
    /\ (/\ result.op = "get"
        /\ result.prev.op = "put"
        /\ result.prev.address = result.address
        /\ result.prev.width = result.width) =>
           result.ret = result.prev.value

\* a negative value of the widest type was stored and loaded again
C16_Witness ==
    /\ result.op = "get"
    /\ result.prev.op = "put"
    /\ result.prev.address = result.address
    /\ result.width = 8
    /\ result.prev.width = 8
    /\ result.ret = TypeMin(8)

\* C17: for every width and all operands fetch_and_add returns the value
\* stored before the call and leaves (old + v) mod 2^w in the cell, also
\* when the sum overflows the width.
C17_FetchAndAdd ==
    result.op = "get_and_add" =>
        LET old == Load(result.before, result.address, result.width)
        IN  /\ result.ret = old
            /\ Load(mem, result.address, result.width) =
                   ValueOf(result.width, PatternOf(result.width, old + result.value))

\* C18: for every width and all operands add_and_fetch returns
\* (old + v) mod 2^w, which is what a load of the cell returns afterwards.
C18_AddAndFetch ==
    result.op = "add_and_get" =>
        LET old == Load(result.before, result.address, result.width)
        IN  /\ result.ret =
                   ValueOf(result.width, PatternOf(result.width, old + result.value))
            /\ result.ret = Load(mem, result.address, result.width)

\* C19: for every width fetch_and_store returns the value stored before the
\* call, leaves v in the cell and leaves every byte outside the cell
\* unchanged.
C19_FetchAndStore ==
    result.op = "get_and_put" =>
        /\ result.ret = Load(result.before, result.address, result.width)
        /\ Load(mem, result.address, result.width) = result.value
        /\ FrameKept

\* a fetch_and_store on a cell that has bytes after it replaced a value by a
\* different one
C19_Witness ==
    /\ result.op = "get_and_put"
    /\ result.address + result.width < MemBytes
    /\ result.ret # result.value
    /\ \E i \in MemAddrs : i >= result.address + result.width /\ mem[i] # 0

(***************************************************************************)
(* Properties of the probe of the huge-page size.                          *)
(***************************************************************************)
\* the mount table can be read and lists a mount of type hugetlbfs at the
\* expected mount point
MountListed ==
    os.mtabOk /\ \E i \in DOMAIN os.mtab : os.mtab[i].type /\ os.mtab[i].dir

\* C20: when the huge-page mount is absent from the mount table, or the
\* mount table cannot be read, huge_page_size returns -1 and never 0,
\* whatever the memory information contains.
C20_AbsentMountUnsupported ==
    (result.op = "hugepage_size" /\ ~MountListed) =>
        result.ret = 0 - 1 /\ result.ret # 0

\* a probe returned on a system whose mount table lists other mounts only
\* and whose memory information holds the huge-page size
C20_Witness ==
    /\ result.op = "hugepage_size"
    /\ os.mtabOk
    /\ Len(os.mtab) > 0
    /\ ~MountListed
    /\ os.meminfoOk
    /\ \E i \in DOMAIN os.meminfo : os.meminfo[i].kind = "huge"
    /\ result.ret = 0 - 1

\* the mount table can be read and holds an entry that phase 1 accepts
MountFound ==
    os.mtabOk /\ \E i \in DOMAIN os.mtab : os.mtab[i].type /\ os.mtab[i].fsname /\ os.mtab[i].dir

\* the lines of the memory information that hold the huge-page-size field
FieldLines ==
    IF os.meminfoOk THEN {i \in DOMAIN os.meminfo : os.meminfo[i].kind = "huge"} ELSE {}

\* the field converted to bytes, taken from its first line
FieldBytes ==
    LET i == CHOOSE j \in FieldLines : \A k \in FieldLines : j <= k
    IN  os.meminfo[i].value * Multiplier(os.meminfo[i].unit)

\* C21: when the huge-page mount is present, huge_page_size returns the
\* huge-page-size field of the memory information converted to bytes
\* (k: *1024, M: *1024^2, G: *1024^3), a positive count, and returns 0
\* exactly when the field is absent.
C21_SizeInBytes ==
    (result.op = "hugepage_size" /\ MountFound) =>
        /\ (FieldLines # {}) => (result.ret = FieldBytes /\ result.ret > 0)
        /\ (result.ret = 0) <=> (FieldLines = {})

\* C22: re-probing is idempotent: while the system shows the same, a
\* further call of huge_page_size returns what the call before it returned
\* and leaves the state of the process (the open files, the allocation
\* counter, the mappings, the heap) as that call left it.
C22_ReprobeIdempotent ==
    [][(result.op = "hugepage_size" /\ result'.op = "hugepage_size" /\ os' = os) =>
          /\ result'.ret = result.ret
          /\ fds' = fds
          /\ hugepageid' = hugepageid
          /\ files' = files
          /\ maps' = maps
          /\ heap' = heap]_vars

(***************************************************************************)
(* Properties of the steps of the huge-page path.                          *)
(***************************************************************************)
\* C25: in the huge-page allocation paths an open of the backing file that
\* fails (returns -1) is reported as a failure of the file-creation step,
\* with no attempt to size or map, and an open that returns descriptor 0 is
\* taken for a success and goes on to sizing and mapping.
C25_OpenOutcome ==
    HugeRan =>
        /\ (result.fd = 0 - 1) => (result.stage = "open" /\ result.ret = 0)
        /\ (result.fd = 0) => (result.stage # "open")

\* the addresses of the regions that are live in the process
LiveAddrs == {m.addr : m \in maps} \cup {h.addr : h \in heap}

\* the addresses the caller was given and has not released
HeldAddrs == {r.addr : r \in held}

\* C29: when allocate returns its failure value no heap block or mapping
\* made by that call stays live, so between calls the live regions are
\* exactly those whose address was returned and has not been freed.
C29_NoOrphanRegions ==
    (\A t \in Threads : pc[t] = "idle") =>
        /\ (result.op = "allocate" /\ result.ret = 0) =>
               (MapsOf(result.call) = {} /\ HeapOf(result.call) = {})
        /\ LiveAddrs = HeldAddrs

(***************************************************************************)
(* Properties of the descriptors the library opens for itself.             *)
(***************************************************************************)
\* the descriptors open on the page-table file, the mount table or the
\* memory information
OwnFds == {e \in fds : e.path \in {<<"pagemap">>, <<"mtab">>, <<"meminfo">>}}

\* C30: every descriptor or stream that virtual_to_physical or
\* huge_page_size opens is closed on every return path, so after any
\* number of calls the process holds no descriptor opened by them.
C30_OwnDescriptorsClosed ==
    (result.op \in {"virt2phys", "hugepage_size"}) => OwnFds = {}

(***************************************************************************)
(* Properties of the read-modify-write helpers under concurrency.          *)
(***************************************************************************)
\* both racers have returned from calls of the same width that began on
\* the same contents x, and no sum involved leaves the range of the type
RaceDone ==
    /\ \A t \in Racers : pc[t] = "returned"
    /\ frame[1].width = frame[2].width
    /\ frame[1].before = frame[2].before
    /\ LET w == frame[1].width
           x == frame[1].before
           a == frame[1].value
           b == frame[2].value
       IN  \A s \in {x + a, x + b, x + a + b} : s >= TypeMin(w) /\ s <= TypeMax(w)

\* C24: the read-modify-write helpers are a plain read followed by a plain
\* write with no atomicity: two unsynchronised calls of fetch_and_add_w on
\* one address each return the contents before any addition or after the
\* other's, and the cell ends with one of the additions or with both; the
\* interleaving in which both return the same old value and only one
\* addition is left is reachable (C24_Witness).
C24_PlainReadThenWrite ==
    RaceDone =>
        LET w == frame[1].width
            x == frame[1].before
            a == frame[1].value
            b == frame[2].value
        IN  /\ frame[1].val \in {x, x + b}
            /\ frame[2].val \in {x, x + a}
            /\ Load(mem, vaddr, w) \in {x + a, x + b, x + a + b}

\* both calls returned the same old value and the contents hold only the
\* addition of one of them
C24_Witness ==
    /\ RaceDone
    /\ frame[1].val = frame[1].before
    /\ frame[2].val = frame[1].before
    /\ Load(mem, vaddr, frame[1].width) = frame[1].before + frame[1].value
    /\ frame[2].value # 0
    /\ Load(mem, vaddr, frame[1].width) #
           frame[1].before + frame[1].value + frame[2].value

(***************************************************************************)
(* Properties of the copies.                                               *)
(***************************************************************************)
\* C28: for every length >= 0 and ranges that do not overlap,
\* copy_volatile makes exactly length copies of one byte each, in ascending
\* address order, and then returns; destination[i] = source[i] for all
\* i < length, as after the bulk copy, and no other byte has changed.
C28_ByteWiseCopy ==
    (pc[1] = "copied" /\ frame[1].op = "copy_volatile") =>
        LET f == frame[1]
        IN  /\ Len(f.log) = f.length
            /\ \A i \in 1 .. Len(f.log) :
                  f.log[i] = [from |-> f.src + (i - 1), to |-> f.dst + (i - 1)]
            /\ \A i \in 0 .. f.length - 1 : mem[f.dst + i] = f.before[f.src + i]
            /\ \A a \in MemAddrs :
                  (a < f.dst \/ a >= f.dst + f.length) => mem[a] = f.before[a]
            /\ mem = Memcpy(f.before, f.src, f.dst, f.length)

\* a copy of two bytes or more that changed the destination has returned
C28_Witness ==
    /\ pc[1] = "copied"
    /\ frame[1].op = "copy_volatile"
    /\ frame[1].length >= 2
    /\ mem # frame[1].before

(***************************************************************************)
(* Properties of map and unmap.                                            *)
(***************************************************************************)
\* the entry of the descriptor table for the file the caller opened
CallerHandle == {e \in fds : e.path = CallerPath}

\* C23: map and unmap never close or change the caller's file handle: it
\* is still open when map returns, on success and on failure, and when
\* unmap returns.
C23_HandleLeftOpen ==
    (result.op \in {"mmap", "munmap"}) =>
        /\ \E e \in CallerHandle : e.fd = LowestFreeFd(StdFds(TRUE)) /\ e.by = 0
        /\ Cardinality(CallerHandle) = 1

\* a mapping of the caller's file was made and unmap has returned
C23_Witness ==
    /\ result.op = "munmap"
    /\ CallerHandle # {}
    /\ calls > 1

\* C26: over any interleaving of concurrent map calls each cached handle
\* is resolved at most once in the process and never overwritten once set.
C26_ResolvedOnce ==
    [][\A k \in CachedFieldNames :
          /\ gCachedFields[k].val # 0 => gCachedFields'[k].val = gCachedFields[k].val
          /\ gCachedFields'[k].stores <= 1]_vars

\* C27: map always maps shared and readable/writable; the huge-page flag
\* is set exactly when huge is true; the lock and reserve flags are set,
\* and mlock is called, exactly when pinned is true; in every variant.
C27_MapFlags ==
    (result.op = "mmap" /\ result.stage \in {"ok", "mmap"}) =>
        /\ "MAP_SHARED" \in result.flags
        /\ result.prot = {"PROT_READ", "PROT_WRITE"}
        /\ ("MAP_HUGETLB" \in result.flags) <=> result.huge
        /\ ("MAP_NORESERVE" \in result.flags) <=> result.lock
        /\ ("MAP_LOCKED" \in result.flags) <=> result.lock
        /\ (result.stage = "ok") => (result.mlockCalled <=> result.lock)

====
